---- MODULE Spec2Model ----
(***************************************************************************)
(* Model of the CapCut template scraper: the per-record pipeline of        *)
(* capcut_scraper.py (scrape_template_page, driven by search_templates and *)
(* main) and of manual_processor.py (process_template, driven by main),    *)
(* the exporters, the browser session, and the upload, link and parsing    *)
(* methods called on their own.                                            *)
(*                                                                         *)
(* Strings the code inspects are sequences of one-character strings; the   *)
(* fixed text of the deep link is cut into digits and digit-free chunks.   *)
(***************************************************************************)
EXTENDS Integers, Sequences, FiniteSets, TLC

VARIABLES
    variant,    \* "auto" (capcut_scraper.py) or "manual" (manual_processor.py)
    harness,    \* "main": the script's main(); "api": the methods called directly
    pc,         \* position of the single thread of control
    q,          \* auto: queries taken from the list so far; manual: entries read
    nlinks,     \* auto: len(template_links[:max_results]) of the current query
    i,          \* auto: links of the current query already iterated
    processed,  \* auto: search_templates' local counter
    rec,        \* number of per-record pipeline runs started so far
    expected,   \* number of records the batch has committed to (links found, entries given)
    cur,        \* the current record's template_data and local results
    trace,      \* stages executed for the current record, in order, with outcome
    disk,       \* temporary media files present: <<owner, kind>>
    templates,  \* self.templates
    driver,     \* browser session: times created, times quit
    csv,        \* the tabular export file: NoFile or its rows, header first
    json,       \* the structured export file: NoFile or the dumped list
    log,        \* last status line printed, or the error an exporter raised
    exit,       \* how the try block of main was left; "" while running
    calls,      \* api harness: the last two methods called
    arg,        \* a method called on its own: the input it was given
    out         \* a method called on its own: what it returned

vars == <<variant, harness, pc, q, nlinks, i, processed, rec, expected, cur, trace,
          disk, templates, driver, csv, json, log, exit, calls, arg, out>>

(***************************************************************************)
(* Bounds of the model.                                                    *)
(***************************************************************************)
MaxQueries == 2
MaxResults == 2
MaxRecords == 3
MaxEntries == 3
MaxApiRecords == 2

(***************************************************************************)
(* Values.                                                                 *)
(***************************************************************************)
None == <<"None">>
NoFile == <<"no file">>

Truthy(x) == x /= None /\ x /= <<>>

HTTPS == <<"h", "t", "t", "p", "s", ":", "/", "/">>

TemplateIds == {None, <<"7", "1">>}

StartsWith(s, p) == Len(s) >= Len(p) /\ SubSeq(s, 1, Len(p)) = p

(* s[p:].startswith(w), positions counted from 1. *)
HasAt(s, p, w) ==
    /\ p + Len(w) - 1 <= Len(s)
    /\ \A k \in 1..Len(w) : s[p + k - 1] = w[k]

IsSpace(c) == c \in {" ", "\n", "\t", "\r"}

RECURSIVE LStrip(_)
LStrip(s) == IF s /= <<>> /\ IsSpace(Head(s)) THEN LStrip(Tail(s)) ELSE s

RECURSIVE RStrip(_)
RStrip(s) == IF s /= <<>> /\ IsSpace(s[Len(s)]) THEN RStrip(SubSeq(s, 1, Len(s) - 1)) ELSE s

Strip(s) == RStrip(LStrip(s))

(* One HTTP exchange with the file host: a transport error, or a status and a body. *)
Responses ==
    { [err |-> TRUE, status |-> 0, body |-> <<>>],
      [err |-> FALSE, status |-> 200, body |-> HTTPS \o <<"a", "\n">>],
      [err |-> FALSE, status |-> 200, body |-> <<" ">> \o HTTPS \o <<"a">>],
      [err |-> FALSE, status |-> 200, body |-> <<"e", "r", "r">>],
      [err |-> FALSE, status |-> 500, body |-> HTTPS \o <<"a">>] }

(* Fault variant: the status code is not tested. *)
upload_to_catbox_any_status(resp) ==
    IF resp.err THEN None
    ELSE LET catbox_url == Strip(resp.body)
         IN IF StartsWith(catbox_url, HTTPS) THEN catbox_url ELSE None

upload_to_catbox(resp) ==
    IF resp.err THEN None
    ELSE IF resp.status = 200
         THEN LET catbox_url == Strip(resp.body)
              IN IF StartsWith(catbox_url, HTTPS) THEN catbox_url ELSE None
         ELSE None

manual_upload_to_catbox(resp) ==
    IF resp.err THEN None
    ELSE IF resp.status = 200 /\ StartsWith(resp.body, HTTPS)
         THEN Strip(resp.body)
         ELSE None

(* What cv2 finds in a video file: whether the capture opens, the frame rate and
   frame count it reports, and whether the frames fail to decode. *)
NoVideo == [opened |-> FALSE, fps |-> 0, frames |-> 0, damaged |-> FALSE]

Videos == {NoVideo} \cup [opened : {TRUE}, fps : {0, 30}, frames : {0, 20, 90}, damaged : BOOLEAN]

(* cap.set(CAP_PROP_POS_FRAMES, n) followed by cap.read(): ret. *)
read(v, n) == v.opened /\ n < v.frames /\ ~v.damaged

timestamp == 2

(* int(timestamp * fps), after timestamp was moved to duration / 2 when it lies
   beyond duration = total_frames / fps if fps > 0 else 0. *)
frame_number(v) ==
    IF v.fps > 0
    THEN IF timestamp * v.fps > v.frames THEN v.frames \div 2 ELSE timestamp * v.fps
    ELSE 0

(* Fault variant: the result of cap.read() is not tested. *)
extract_video_thumbnail_unchecked(v) == v.opened

(* TRUE when a frame was read and output_path is returned. *)
extract_video_thumbnail(v) ==
    IF ~v.opened THEN FALSE ELSE read(v, frame_number(v))

ManualFrame == 30

extract_thumbnail(v) == read(v, ManualFrame)

(* The f-string of the deep link around its two {template_id} fields, cut into
   single digits and digit-free chunks. *)
LinkHead ==
    <<"https://capcut-yt.onelink.me/W", "3", "Oy/cw", "7", "bmax", "3",
      "?af_dp=capcut%", "3", "A%", "2", "F%", "2", "Ftemplate%", "2", "Fdetail%", "3",
      "Fenter_app%", "3", "Dother%", "2", "6", "enter_from%", "3", "DSEO_detail_page%",
      "2", "6", "template_id%", "3", "D">>

LinkMid ==
    <<"%", "2", "6", "template_language%", "3", "DNone&af_xp=social&deep_link_sub",
      "1", "=%", "7", "B%", "2", "2", "share_token%", "2", "2", "%", "3", "A%", "2",
      "2", "None%", "2", "2", "%", "7", "D&deep_link_value=capcut%", "2", "5", "3",
      "A%", "2", "5", "2", "F%", "2", "5", "2", "Ftemplate%", "2", "5", "2",
      "Fdetail%", "2", "5", "3", "Fenter_app%", "2", "5", "3", "Dother%", "2", "5",
      "2", "6", "enter_from%", "2", "5", "3", "DSEO_detail_page%", "2", "5", "2", "6",
      "template_id%", "2", "5", "3", "D">>

LinkTail ==
    <<"%", "2", "5", "2", "6", "template_language%", "2", "5", "3",
      "DNone&is_retargeting=true&pid=SEO_detail">>

(* Fault variant: the identifier is substituted in the first place only. *)
generate_capcut_link_once(template_id) ==
    IF ~Truthy(template_id) THEN None
    ELSE LinkHead \o template_id \o LinkMid \o LinkTail

generate_capcut_link(template_id) ==
    IF ~Truthy(template_id) THEN None
    ELSE LinkHead \o template_id \o LinkMid \o template_id \o LinkTail

(***************************************************************************)
(* The per-record pipeline: which statement follows a stage.               *)
(***************************************************************************)
RecordStages == {"load", "wait", "parse", "discover", "link", "prep", "fetch", "extract",
                 "upload_video", "upload_thumb", "cleanup", "check"}

InRecord == pc \in RecordStages

(* Fault variant: a failed extraction does not stop the uploads. *)
NextStageAutoUngated(stage, ok) ==
    CASE stage = "load" -> IF ok THEN "wait" ELSE "returned"
      [] stage = "wait" -> "parse"
      [] stage = "parse" -> "discover"
      [] stage = "discover" -> IF ok THEN "link" ELSE "returned"
      [] stage = "link" -> "fetch"
      [] stage = "fetch" -> IF ok THEN "extract" ELSE "check"
      [] stage = "extract" -> "upload_video"
      [] stage = "upload_video" -> "upload_thumb"
      [] stage = "upload_thumb" -> "cleanup"
      [] stage = "cleanup" -> "check"
      [] stage = "check" -> "returned"

(* Fault variant: the thumbnail is uploaded before the video. *)
NextStageAutoReordered(stage, ok) ==
    CASE stage = "load" -> IF ok THEN "wait" ELSE "returned"
      [] stage = "wait" -> "parse"
      [] stage = "parse" -> "discover"
      [] stage = "discover" -> IF ok THEN "link" ELSE "returned"
      [] stage = "link" -> "fetch"
      [] stage = "fetch" -> IF ok THEN "extract" ELSE "check"
      [] stage = "extract" -> IF ok THEN "upload_thumb" ELSE "check"
      [] stage = "upload_thumb" -> "upload_video"
      [] stage = "upload_video" -> "cleanup"
      [] stage = "cleanup" -> "check"
      [] stage = "check" -> "returned"

(* Fault variant: an exception of the page load is not caught by
   scrape_template_page and ends the query in search_templates' handler. *)
NextStageAutoEscaping(stage, ok) ==
    CASE stage = "load" -> IF ok THEN "wait" ELSE "search_end"
      [] stage = "wait" -> "parse"
      [] stage = "parse" -> "discover"
      [] stage = "discover" -> IF ok THEN "link" ELSE "returned"
      [] stage = "link" -> "fetch"
      [] stage = "fetch" -> IF ok THEN "extract" ELSE "check"
      [] stage = "extract" -> IF ok THEN "upload_video" ELSE "check"
      [] stage = "upload_video" -> "upload_thumb"
      [] stage = "upload_thumb" -> "cleanup"
      [] stage = "cleanup" -> "check"
      [] stage = "check" -> "returned"

(* scrape_template_page: an exception (driver.get) or a missing video URL returns
   None at once; a failed download or extraction falls through to the final test. *)
NextStageAuto(stage, ok) ==
    CASE stage = "load" -> IF ok THEN "wait" ELSE "returned"
      [] stage = "wait" -> "parse"
      [] stage = "parse" -> "discover"
      [] stage = "discover" -> IF ok THEN "link" ELSE "returned"
      [] stage = "link" -> "fetch"
      [] stage = "fetch" -> IF ok THEN "extract" ELSE "check"
      [] stage = "extract" -> IF ok THEN "upload_video" ELSE "check"
      [] stage = "upload_video" -> "upload_thumb"
      [] stage = "upload_thumb" -> "cleanup"
      [] stage = "cleanup" -> "check"
      [] stage = "check" -> "returned"

(* process_template: a failed download or extraction returns None at once. *)
NextStageManual(stage, ok) ==
    CASE stage = "prep" -> "fetch"
      [] stage = "fetch" -> IF ok THEN "extract" ELSE "returned"
      [] stage = "extract" -> IF ok THEN "upload_video" ELSE "returned"
      [] stage = "upload_video" -> "upload_thumb"
      [] stage = "upload_thumb" -> "cleanup"
      [] stage = "cleanup" -> "check"
      [] stage = "check" -> "returned"

FreshRecord ==
    [template_id |-> None, video_url |-> None, thumbnail_url |-> None,
     capcut_link |-> None, result |-> FALSE, ended |-> FALSE, rm_failed |-> FALSE,
     video |-> NoVideo]

Stage(name, ok) == [stage |-> name, ok |-> ok]

(* What outlives the per-record call: whether it returned data, and the two hosted
   URLs it obtained. *)
Ended(c) ==
    [FreshRecord EXCEPT !.video_url = c.video_url, !.thumbnail_url = c.thumbnail_url,
                        !.result = c.result, !.ended = TRUE]

(* A file of an earlier record that is still on disk stays there. *)
Age(files) == {<<"old", f[2]>> : f \in files}


(***************************************************************************)
(* Export: rows in fixed column order; None is written as the empty field. *)
(***************************************************************************)
Title(n) == <<ToString(n)>>

Url(n) == <<"u", ToString(n)>>

CsvField(x) == IF x = None THEN <<>> ELSE x

CsvHeader == <<"title", "template_id", "capcut_link", "video_url", "thumbnail_url", "web_url">>

ManualCsvHeader == <<"title", "template_id", "capcut_link", "video_url", "thumbnail_url", "original_url">>

CsvRow(template) ==
    <<template.title, CsvField(template.template_id), CsvField(template.capcut_link),
      CsvField(template.video_url), CsvField(template.thumbnail_url), template.web_url>>

ManualCsvRow(template) ==
    <<template.title, IF Truthy(template.template_id) THEN template.template_id ELSE <<>>,
      template.capcut_link, template.video_url, template.thumbnail_url, template.web_url>>

(* Fault variant: the export file is opened in append mode. *)
OpenForAppend(old) == IF old = NoFile THEN <<>> ELSE old

(* open(filepath, 'w'): the file is created or truncated. *)
OpenForWrite(old) == <<>>

RECURSIVE WriteRows(_, _, _)
WriteRows(f, T, k) ==
    IF k > Len(T) THEN f ELSE WriteRows(Append(f, CsvRow(T[k])), T, k + 1)

RECURSIVE ManualWriteRows(_, _, _)
ManualWriteRows(f, T, k) ==
    IF k > Len(T) THEN f ELSE ManualWriteRows(Append(f, ManualCsvRow(T[k])), T, k + 1)

WriteCsv(old, T) == WriteRows(Append(OpenForWrite(old), CsvHeader), T, 1)

ManualWriteCsv(old, T) == ManualWriteRows(Append(OpenForWrite(old), ManualCsvHeader), T, 1)

(***************************************************************************)
(* Initial state: the script has been started, nothing constructed yet.    *)
(***************************************************************************)
InitState ==
    /\ q = 0 /\ nlinks = 0 /\ i = 0 /\ processed = 0
    /\ rec = 0 /\ expected = 0
    /\ cur = FreshRecord
    /\ trace = <<>>
    /\ disk = {}
    /\ templates = <<>>
    /\ driver = [created |-> 0, quit |-> 0]
    /\ csv = NoFile
    /\ json = NoFile
    /\ log = ""
    /\ exit = ""
    /\ calls = <<"", "">>

InitCommon ==
    /\ variant \in {"auto", "manual"}
    /\ pc = "start"
    /\ InitState
    /\ arg = None
    /\ out = None

Init == InitCommon /\ harness = "main"

InitApi == InitCommon /\ harness = "api"

RecordCap == IF harness = "main" THEN MaxRecords ELSE MaxApiRecords

Resume == IF harness = "main" THEN (IF variant = "auto" THEN "queries" ELSE "input") ELSE "idle"

(***************************************************************************)
(* Construction.                                                           *)
(***************************************************************************)
(* CapCutCatboxScraper(): setup_driver may raise before the browser exists,
   os.makedirs may raise after it was created. *)
Construct ==
    /\ pc = "start" /\ variant = "auto"
    /\ \E f \in {"ok", "driver_fail", "mkdir_fail"} :
         /\ driver' = [created |-> IF f = "driver_fail" THEN 0 ELSE 1, quit |-> 0]
         /\ pc' = IF f = "ok" THEN Resume ELSE "crashed"
    /\ UNCHANGED <<arg, out, variant, harness, q, nlinks, i, processed, rec, expected, cur, trace,
                   disk, templates, csv, json, log, exit, calls>>

ManualConstruct ==
    /\ pc = "start" /\ variant = "manual"
    /\ \E ok \in BOOLEAN : pc' = IF ok THEN Resume ELSE "crashed"
    /\ UNCHANGED <<arg, out, variant, harness, q, nlinks, i, processed, rec, expected, cur, trace,
                   disk, templates, driver, csv, json, log, exit, calls>>

(***************************************************************************)
(* Automated variant: main's query loop and search_templates.              *)
(***************************************************************************)
NextQuery ==
    /\ pc = "queries" /\ variant = "auto" /\ harness = "main"
    /\ IF q < MaxQueries
       THEN pc' = "search" /\ q' = q + 1
       ELSE pc' = "export_check" /\ q' = q
    /\ UNCHANGED <<arg, out, variant, harness, nlinks, i, processed, rec, expected, cur, trace,
                   disk, templates, driver, csv, json, log, exit, calls>>

Min(a, b) == IF a < b THEN a ELSE b

Search ==
    /\ pc = "search" /\ variant = "auto"
    /\ \/ /\ pc' = "search_end"
          /\ log' = "Search error"
          /\ UNCHANGED <<nlinks, i, processed, expected>>
       \/ \E found \in 0..(MaxResults + 1) :
            /\ rec + Min(found, MaxResults) <= RecordCap
            /\ nlinks' = Min(found, MaxResults)
            /\ i' = 0
            /\ processed' = 0
            /\ expected' = expected + Min(found, MaxResults)
            /\ log' = "Found template links"
            /\ pc' = "links"
    /\ UNCHANGED <<arg, out, variant, harness, q, rec, cur, trace, disk, templates, driver, csv,
                   json, exit, calls>>

NextLink ==
    /\ pc = "links" /\ variant = "auto"
    /\ IF i < nlinks
       THEN /\ rec' = rec + 1
            /\ cur' = FreshRecord
            /\ trace' = <<>>
            /\ disk' = Age(disk)
            /\ pc' = "load"
            /\ log' = log
       ELSE /\ pc' = "search_end"
            /\ log' = "Successfully processed templates for query"
            /\ UNCHANGED <<rec, cur, trace, disk>>
    /\ UNCHANGED <<arg, out, variant, harness, q, nlinks, i, processed, expected, templates, driver,
                   csv, json, exit, calls>>

SearchEnd ==
    /\ pc = "search_end" /\ variant = "auto"
    /\ nlinks' = 0 /\ i' = 0 /\ processed' = 0
    /\ pc' = Resume
    /\ UNCHANGED <<arg, out, variant, harness, q, rec, expected, cur, trace,
                   disk, templates, driver, csv, json, log, exit, calls>>

(***************************************************************************)
(* Automated variant: scrape_template_page.                                *)
(***************************************************************************)
Load ==
    /\ pc = "load"
    /\ \E ok \in BOOLEAN : pc' = NextStageAuto("load", ok)
    /\ UNCHANGED <<arg, out, variant, harness, q, nlinks, i, processed, rec, expected, cur, trace,
                   disk, templates, driver, csv, json, log, exit, calls>>

Wait ==
    /\ pc = "wait"
    /\ pc' = NextStageAuto("wait", TRUE)
    /\ UNCHANGED <<arg, out, variant, harness, q, nlinks, i, processed, rec, expected, cur, trace,
                   disk, templates, driver, csv, json, log, exit, calls>>

Parse ==
    /\ pc = "parse"
    /\ \E tid \in TemplateIds : cur' = [cur EXCEPT !.template_id = tid]
    /\ pc' = NextStageAuto("parse", TRUE)
    /\ UNCHANGED <<arg, out, variant, harness, q, nlinks, i, processed, rec, expected, trace,
                   disk, templates, driver, csv, json, log, exit, calls>>

Discover ==
    /\ pc = "discover"
    /\ \E found \in BOOLEAN :
         /\ trace' = Append(trace, Stage("Discover", found))
         /\ pc' = NextStageAuto("discover", found)
    /\ UNCHANGED <<arg, out, variant, harness, q, nlinks, i, processed, rec, expected, cur,
                   disk, templates, driver, csv, json, log, exit, calls>>

GenLink ==
    /\ pc = "link"
    /\ IF Truthy(cur.template_id)
       THEN /\ cur' = [cur EXCEPT !.capcut_link = generate_capcut_link(cur.template_id)]
            /\ trace' = Append(trace, Stage("Link", TRUE))
       ELSE UNCHANGED <<cur, trace>>
    /\ pc' = NextStageAuto("link", TRUE)
    /\ UNCHANGED <<arg, out, variant, harness, q, nlinks, i, processed, rec, expected,
                   disk, templates, driver, csv, json, log, exit, calls>>

Fetch ==
    /\ pc = "fetch" /\ variant = "auto"
    /\ \E r \in {"ok", "nofile", "partial"} :
         /\ disk' = IF r = "nofile" THEN disk ELSE disk \cup {<<"cur", "video">>}
         /\ IF r = "ok"
            THEN \E v \in Videos : cur' = [cur EXCEPT !.video = v]
            ELSE cur' = cur
         /\ trace' = Append(trace, Stage("Fetch", r = "ok"))
         /\ pc' = NextStageAuto("fetch", r = "ok")
    /\ UNCHANGED <<arg, out, variant, harness, q, nlinks, i, processed, rec, expected,
                   templates, driver, csv, json, log, exit, calls>>

Extract ==
    /\ pc = "extract" /\ variant = "auto"
    /\ LET ret == extract_video_thumbnail(cur.video)
       IN /\ \E written \in BOOLEAN :
               disk' = IF ret /\ written THEN disk \cup {<<"cur", "thumb">>} ELSE disk
          /\ trace' = Append(trace, Stage("Extract", ret))
          /\ pc' = NextStageAuto("extract", ret)
    /\ cur' = [cur EXCEPT !.video = NoVideo]
    /\ UNCHANGED <<arg, out, variant, harness, q, nlinks, i, processed, rec, expected,
                   templates, driver, csv, json, log, exit, calls>>

UploadVideo ==
    /\ pc = "upload_video" /\ variant = "auto"
    /\ \E resp \in Responses :
         LET url == IF <<"cur", "video">> \in disk THEN upload_to_catbox(resp) ELSE None
         IN /\ cur' = [cur EXCEPT !.video_url = url]
            /\ trace' = Append(trace, Stage("UploadVideo", Truthy(url)))
    /\ pc' = NextStageAuto("upload_video", TRUE)
    /\ UNCHANGED <<arg, out, variant, harness, q, nlinks, i, processed, rec, expected,
                   disk, templates, driver, csv, json, log, exit, calls>>

UploadThumb ==
    /\ pc = "upload_thumb" /\ variant = "auto"
    /\ \E resp \in Responses :
         LET url == IF <<"cur", "thumb">> \in disk THEN upload_to_catbox(resp) ELSE None
         IN /\ cur' = [cur EXCEPT !.thumbnail_url = url]
            /\ trace' = Append(trace, Stage("UploadThumb", Truthy(url)))
    /\ pc' = NextStageAuto("upload_thumb", TRUE)
    /\ UNCHANGED <<arg, out, variant, harness, q, nlinks, i, processed, rec, expected,
                   disk, templates, driver, csv, json, log, exit, calls>>

(* os.remove(video), os.remove(thumbnail) under a bare except: the first removal
   that raises (or is interrupted) skips the rest. *)
Cleanup ==
    /\ pc = "cleanup" /\ variant = "auto"
    /\ \E rm \in {"none", "video", "thumb"} :
         /\ disk' = CASE rm = "none" -> disk \ {<<"cur", "video">>, <<"cur", "thumb">>}
                      [] rm = "video" -> disk
                      [] rm = "thumb" -> disk \ {<<"cur", "video">>}
         /\ cur' = [cur EXCEPT !.rm_failed = (rm /= "none")]
         /\ trace' = Append(trace, Stage("Cleanup", rm = "none"))
    /\ pc' = NextStageAuto("cleanup", TRUE)
    /\ UNCHANGED <<arg, out, variant, harness, q, nlinks, i, processed, rec, expected,
                   templates, driver, csv, json, log, exit, calls>>

(* Fault variant: only the video URL is tested. *)
VideoUploaded(c) == Truthy(c.video_url)

BothUploaded(c) == Truthy(c.video_url) /\ Truthy(c.thumbnail_url)

Check ==
    /\ pc = "check" /\ variant = "auto"
    /\ cur' = [cur EXCEPT !.result = BothUploaded(cur)]
    /\ pc' = NextStageAuto("check", TRUE)
    /\ UNCHANGED <<arg, out, variant, harness, q, nlinks, i, processed, rec, expected, trace,
                   disk, templates, driver, csv, json, log, exit, calls>>

TemplateData(c, n) ==
    [title |-> Title(n), template_id |-> c.template_id, capcut_link |-> c.capcut_link,
     video_url |-> c.video_url, thumbnail_url |-> c.thumbnail_url, web_url |-> Url(n)]

(* search_templates, after scrape_template_page returned. *)
AppendAuto ==
    /\ pc = "returned" /\ variant = "auto"
    /\ cur' = Ended(cur)
    /\ trace' = <<>>
    /\ IF cur.result
       THEN /\ templates' = Append(templates, TemplateData(cur, rec))
            /\ processed' = processed + 1
       ELSE UNCHANGED <<templates, processed>>
    /\ i' = i + 1
    /\ pc' = IF processed' >= MaxResults THEN "search_end" ELSE "links"
    /\ UNCHANGED <<arg, out, variant, harness, q, nlinks, rec, expected,
                   disk, driver, csv, json, log, exit, calls>>


(***************************************************************************)
(* Manual variant: main's input loop and process_template.                 *)
(***************************************************************************)
Input ==
    /\ pc = "input" /\ variant = "manual" /\ harness = "main"
    /\ \/ /\ pc' = "export_check"
          /\ UNCHANGED <<q, rec, expected, cur, trace, disk, log>>
       \/ /\ q < MaxEntries
          /\ q' = q + 1
          /\ log' = "Video URL required!"
          /\ pc' = "input"
          /\ UNCHANGED <<rec, expected, cur, trace, disk>>
       \/ /\ q < MaxEntries /\ rec < MaxRecords
          /\ q' = q + 1
          /\ rec' = rec + 1
          /\ expected' = expected + 1
          /\ cur' = FreshRecord
          /\ trace' = <<>>
          /\ disk' = Age(disk)
          /\ pc' = "prep"
          /\ log' = log
    /\ UNCHANGED <<arg, out, variant, harness, nlinks, i, processed, templates, driver, csv, json,
                   exit, calls>>

Prep ==
    /\ pc = "prep"
    /\ \E tid \in TemplateIds : cur' = [cur EXCEPT !.template_id = tid]
    /\ pc' = NextStageManual("prep", TRUE)
    /\ UNCHANGED <<arg, out, variant, harness, q, nlinks, i, processed, rec, expected, trace,
                   disk, templates, driver, csv, json, log, exit, calls>>

ManualFetch ==
    /\ pc = "fetch" /\ variant = "manual"
    /\ \E r \in {"ok", "nofile", "partial"} :
         /\ disk' = IF r = "nofile" THEN disk ELSE disk \cup {<<"cur", "video">>}
         /\ IF r = "ok"
            THEN \E v \in Videos : cur' = [cur EXCEPT !.video = v]
            ELSE cur' = cur
         /\ trace' = Append(trace, Stage("Fetch", r = "ok"))
         /\ pc' = NextStageManual("fetch", r = "ok")
    /\ UNCHANGED <<arg, out, variant, harness, q, nlinks, i, processed, rec, expected,
                   templates, driver, csv, json, log, exit, calls>>

ManualExtract ==
    /\ pc = "extract" /\ variant = "manual"
    /\ LET ret == extract_thumbnail(cur.video)
       IN /\ \E written \in BOOLEAN :
               disk' = IF ret /\ written THEN disk \cup {<<"cur", "thumb">>} ELSE disk
          /\ trace' = Append(trace, Stage("Extract", ret))
          /\ pc' = NextStageManual("extract", ret)
    /\ cur' = [cur EXCEPT !.video = NoVideo]
    /\ UNCHANGED <<arg, out, variant, harness, q, nlinks, i, processed, rec, expected,
                   templates, driver, csv, json, log, exit, calls>>

ManualUploadVideo ==
    /\ pc = "upload_video" /\ variant = "manual"
    /\ \E resp \in Responses :
         LET url == IF <<"cur", "video">> \in disk THEN manual_upload_to_catbox(resp) ELSE None
         IN /\ cur' = [cur EXCEPT !.video_url = url]
            /\ trace' = Append(trace, Stage("UploadVideo", Truthy(url)))
    /\ pc' = NextStageManual("upload_video", TRUE)
    /\ UNCHANGED <<arg, out, variant, harness, q, nlinks, i, processed, rec, expected,
                   disk, templates, driver, csv, json, log, exit, calls>>

ManualUploadThumb ==
    /\ pc = "upload_thumb" /\ variant = "manual"
    /\ \E resp \in Responses :
         LET url == IF <<"cur", "thumb">> \in disk THEN manual_upload_to_catbox(resp) ELSE None
         IN /\ cur' = [cur EXCEPT !.thumbnail_url = url]
            /\ trace' = Append(trace, Stage("UploadThumb", Truthy(url)))
    /\ pc' = NextStageManual("upload_thumb", TRUE)
    /\ UNCHANGED <<arg, out, variant, harness, q, nlinks, i, processed, rec, expected,
                   disk, templates, driver, csv, json, log, exit, calls>>

ManualCleanup ==
    /\ pc = "cleanup" /\ variant = "manual"
    /\ \E rm \in {"none", "video", "thumb"} :
         /\ disk' = CASE rm = "none" -> disk \ {<<"cur", "video">>, <<"cur", "thumb">>}
                      [] rm = "video" -> disk
                      [] rm = "thumb" -> disk \ {<<"cur", "video">>}
         /\ cur' = [cur EXCEPT !.rm_failed = (rm /= "none")]
         /\ trace' = Append(trace, Stage("Cleanup", rm = "none"))
    /\ pc' = NextStageManual("cleanup", TRUE)
    /\ UNCHANGED <<arg, out, variant, harness, q, nlinks, i, processed, rec, expected,
                   templates, driver, csv, json, log, exit, calls>>

(* process_template's final test: the link is generated and the record appended
   here, after the cleanup. *)
ManualCheck ==
    /\ pc = "check" /\ variant = "manual"
    /\ IF BothUploaded(cur)
       THEN LET link == IF Truthy(cur.template_id)
                        THEN generate_capcut_link(cur.template_id) ELSE <<>>
                data == [cur EXCEPT !.capcut_link = link, !.result = TRUE]
            IN /\ cur' = data
               /\ trace' = IF Truthy(cur.template_id)
                           THEN Append(trace, Stage("Link", TRUE)) ELSE trace
               /\ templates' = Append(templates, TemplateData(data, rec))
       ELSE UNCHANGED <<cur, trace, templates>>
    /\ pc' = NextStageManual("check", TRUE)
    /\ UNCHANGED <<arg, out, variant, harness, q, nlinks, i, processed, rec, expected,
                   disk, driver, csv, json, log, exit, calls>>

(* main discards process_template's result and prompts again. *)
ManualReturn ==
    /\ pc = "returned" /\ variant = "manual"
    /\ cur' = Ended(cur)
    /\ trace' = <<>>
    /\ pc' = Resume
    /\ UNCHANGED <<arg, out, variant, harness, q, nlinks, i, processed, rec, expected,
                   disk, templates, driver, csv, json, log, exit, calls>>

(***************************************************************************)
(* Export and shutdown.                                                    *)
(***************************************************************************)
ExportCheck ==
    /\ pc = "export_check" /\ variant = "auto"
    /\ IF templates /= <<>>
       THEN pc' = "export_csv" /\ UNCHANGED <<log, exit>>
       ELSE /\ log' = "No templates were successfully scraped"
            /\ exit' = "normal"
            /\ pc' = "finally"
    /\ UNCHANGED <<arg, out, variant, harness, q, nlinks, i, processed, rec, expected, cur, trace,
                   disk, templates, driver, csv, json, calls>>

ExportToCsv ==
    /\ pc = "export_csv" /\ variant = "auto"
    /\ IF templates = <<>>
       THEN /\ log' = "No templates to export"
            /\ pc' = IF harness = "main" THEN "export_json" ELSE "idle"
            /\ UNCHANGED <<csv, exit>>
       ELSE \/ /\ csv' = WriteCsv(csv, templates)
               /\ log' = "Exported to csv"
               /\ pc' = IF harness = "main" THEN "export_json" ELSE "idle"
               /\ exit' = exit
            \/ /\ pc' = IF harness = "main" THEN "except_exc" ELSE "idle"
               /\ exit' = IF harness = "main" THEN "error" ELSE exit
               /\ log' = "IOError"
               /\ csv' = csv
    /\ UNCHANGED <<arg, out, variant, harness, q, nlinks, i, processed, rec, expected, cur, trace,
                   disk, templates, driver, json, calls>>

ExportToJson ==
    /\ pc = "export_json" /\ variant = "auto"
    /\ IF templates = <<>>
       THEN /\ log' = "No templates to export"
            /\ pc' = IF harness = "main" THEN "finally" ELSE "idle"
            /\ exit' = IF harness = "main" THEN "normal" ELSE exit
            /\ json' = json
       ELSE \/ /\ json' = templates
               /\ log' = "Exported to json"
               /\ pc' = IF harness = "main" THEN "finally" ELSE "idle"
               /\ exit' = IF harness = "main" THEN "normal" ELSE exit
            \/ /\ pc' = IF harness = "main" THEN "except_exc" ELSE "idle"
               /\ exit' = IF harness = "main" THEN "error" ELSE exit
               /\ log' = "IOError"
               /\ json' = json
    /\ UNCHANGED <<arg, out, variant, harness, q, nlinks, i, processed, rec, expected, cur, trace,
                   disk, templates, driver, csv, calls>>

(* Fault variant: the interrupt handler leaves main without the finally clause. *)
ExceptKeyboardInterruptNoFinally ==
    /\ pc = "except_kbd"
    /\ log' = "Scraping stopped by user"
    /\ pc' = "done"
    /\ UNCHANGED <<arg, out, variant, harness, q, nlinks, i, processed, rec, expected, cur, trace,
                   disk, templates, driver, csv, json, exit, calls>>

ExceptKeyboardInterrupt ==
    /\ pc = "except_kbd"
    /\ log' = "Scraping stopped by user"
    /\ pc' = "finally"
    /\ UNCHANGED <<arg, out, variant, harness, q, nlinks, i, processed, rec, expected, cur, trace,
                   disk, templates, driver, csv, json, exit, calls>>

ExceptException ==
    /\ pc = "except_exc"
    /\ log' = "Error"
    /\ pc' = "finally"
    /\ UNCHANGED <<arg, out, variant, harness, q, nlinks, i, processed, rec, expected, cur, trace,
                   disk, templates, driver, csv, json, exit, calls>>

(* finally: scraper.close() *)
Close ==
    /\ pc = "finally"
    /\ driver' = [driver EXCEPT !.quit = @ + 1]
    /\ pc' = "done"
    /\ UNCHANGED <<arg, out, variant, harness, q, nlinks, i, processed, rec, expected, cur, trace,
                   disk, templates, csv, json, log, exit, calls>>

ManualExportCheck ==
    /\ pc = "export_check" /\ variant = "manual"
    /\ IF templates /= <<>>
       THEN pc' = "export_csv" /\ UNCHANGED <<log, exit>>
       ELSE /\ log' = "No templates processed"
            /\ exit' = "normal"
            /\ pc' = "done"
    /\ UNCHANGED <<arg, out, variant, harness, q, nlinks, i, processed, rec, expected, cur, trace,
                   disk, templates, driver, csv, json, calls>>

(* export_csv writes the file whatever the collection holds. *)
ManualExportCsv ==
    /\ pc = "export_csv" /\ variant = "manual"
    /\ csv' = ManualWriteCsv(csv, templates)
    /\ log' = "Exported to csv"
    /\ pc' = IF harness = "main" THEN "done" ELSE "idle"
    /\ exit' = IF harness = "main" THEN "normal" ELSE exit
    /\ UNCHANGED <<arg, out, variant, harness, q, nlinks, i, processed, rec, expected, cur, trace,
                   disk, templates, driver, json, calls>>

(***************************************************************************)
(* KeyboardInterrupt. The handlers written "except Exception" let it pass; *)
(* the bare "except:" around the page wait and around the file removals    *)
(* swallow it, so at those two statements it does not end the run.         *)
(***************************************************************************)
TryBlock == {"queries", "search", "links", "search_end", "returned", "export_check",
             "export_csv", "export_json"} \cup (RecordStages \ {"prep"})

Swallowing == {"wait", "cleanup"}

Interrupt ==
    /\ variant = "auto" /\ harness = "main"
    /\ pc \in TryBlock \ Swallowing
    /\ pc' = "except_kbd"
    /\ exit' = "interrupt"
    /\ UNCHANGED <<arg, out, variant, harness, q, nlinks, i, processed, rec, expected, cur, trace,
                   disk, templates, driver, csv, json, log, calls>>

(* The manual main has no handler: the interrupt ends the process. *)
ManualInterrupt ==
    /\ variant = "manual" /\ harness = "main"
    /\ pc \in ({"input", "returned", "export_check", "export_csv"}
               \cup (RecordStages \ {"load", "wait", "parse", "discover", "link"}))
              \ Swallowing
    /\ pc' = "done"
    /\ exit' = "interrupt"
    /\ UNCHANGED <<arg, out, variant, harness, q, nlinks, i, processed, rec, expected, cur, trace,
                   disk, templates, driver, csv, json, log, calls>>

(***************************************************************************)
(* The classes used directly: any public method, in any order.             *)
(***************************************************************************)
ApiCall ==
    /\ pc = "idle" /\ variant = "auto"
    /\ \E m \in {"search_templates", "export_to_csv", "export_to_json", "close"} :
         /\ calls' = <<calls[2], m>>
         /\ pc' = CASE m = "search_templates" -> "search"
                    [] m = "export_to_csv" -> "export_csv"
                    [] m = "export_to_json" -> "export_json"
                    [] m = "close" -> "finally"
    /\ UNCHANGED <<arg, out, variant, harness, q, nlinks, i, processed, rec, expected, cur, trace,
                   disk, templates, driver, csv, json, log, exit>>

ManualApiCall ==
    /\ pc = "idle" /\ variant = "manual"
    /\ \/ /\ rec < MaxApiRecords
          /\ calls' = <<calls[2], "process_template">>
          /\ rec' = rec + 1
          /\ expected' = expected + 1
          /\ cur' = FreshRecord
          /\ trace' = <<>>
          /\ disk' = Age(disk)
          /\ pc' = "prep"
       \/ /\ calls' = <<calls[2], "export_csv">>
          /\ pc' = "export_csv"
          /\ UNCHANGED <<rec, expected, cur, trace, disk>>
    /\ UNCHANGED <<arg, out, variant, harness, q, nlinks, i, processed, templates, driver, csv,
                   json, log, exit>>

(***************************************************************************)
(* Specifications.                                                         *)
(***************************************************************************)
Pipeline ==
    \/ Load \/ Wait \/ Parse \/ Discover \/ GenLink \/ Fetch \/ Extract
    \/ UploadVideo \/ UploadThumb \/ Cleanup \/ Check \/ AppendAuto
    \/ Prep \/ ManualFetch \/ ManualExtract \/ ManualUploadVideo \/ ManualUploadThumb
    \/ ManualCleanup \/ ManualCheck \/ ManualReturn

Next ==
    \/ Construct \/ ManualConstruct
    \/ NextQuery \/ Search \/ NextLink \/ SearchEnd
    \/ Input
    \/ Pipeline
    \/ ExportCheck \/ ExportToCsv \/ ExportToJson
    \/ ExceptKeyboardInterrupt \/ ExceptException \/ Close
    \/ ManualExportCheck \/ ManualExportCsv
    \/ Interrupt \/ ManualInterrupt

Spec == Init /\ [][Next]_vars

NextApi ==
    \/ Construct \/ ManualConstruct
    \/ ApiCall \/ ManualApiCall
    \/ Search \/ NextLink \/ SearchEnd
    \/ Pipeline
    \/ ExportToCsv \/ ExportToJson \/ ManualExportCsv
    \/ Close

SpecApi == InitApi /\ [][NextApi]_vars


(***************************************************************************)
(* Properties.                                                             *)
(***************************************************************************)
InTemplates(n) == \E k \in 1..Len(templates) : templates[k].title = Title(n)

Attempted(stage, k) == \E j \in 1..(k - 1) : trace[j].stage = stage

Succeeded(stage, k) == \E j \in 1..(k - 1) : trace[j].stage = stage /\ trace[j].ok

(* C1: every record of the collection has a non-empty hosted video URL and a
   non-empty hosted thumbnail URL, and a record whose run has ended is in the
   collection exactly when both of its uploads returned a non-empty URL. *)
C1_CollectedIffBothUploaded ==
    /\ \A k \in 1..Len(templates) :
         /\ templates[k].video_url \notin {None, <<>>}
         /\ templates[k].thumbnail_url \notin {None, <<>>}
    /\ (rec > 0 /\ cur.ended) =>
         (InTemplates(rec) <=>
            (cur.video_url \notin {None, <<>>} /\ cur.thumbnail_url \notin {None, <<>>}))

(* C1 witness: a run has ended whose video upload succeeded and whose thumbnail
   upload failed, while an earlier record was collected. *)
C1_Witness ==
    /\ cur.ended
    /\ cur.video_url /= None
    /\ cur.thumbnail_url = None
    /\ templates /= <<>>
    /\ ~InTemplates(rec)

(* C2: when a per-record run has returned and no file removal failed, no temporary
   file of that record is left on disk. *)
C2_NoTempFileAfterRun ==
    (pc = "returned" /\ ~cur.rm_failed) => (\A f \in disk : f[1] /= "cur")

(* C3: an automated run that was interrupted with records accumulated ends with
   those records exported. *)
C3_InterruptExportsAccumulated ==
    (variant = "auto" /\ harness = "main" /\ pc = "done" /\ exit = "interrupt"
        /\ templates /= <<>>)
    => csv = WriteCsv(NoFile, templates)

SpecRank(stage) ==
    CASE stage = "Discover" -> 0
      [] stage = "Fetch" -> 1
      [] stage = "Extract" -> 2
      [] stage = "UploadVideo" -> 3
      [] stage = "UploadThumb" -> 4
      [] stage = "Link" -> 5
      [] stage = "Cleanup" -> 6

SpecStages == {"Discover", "Fetch", "Extract", "UploadVideo", "UploadThumb", "Link", "Cleanup"}

(* The stages that exist in the variant: the manual variant is handed the video URL. *)
StagesOf(v) == IF v = "auto" THEN SpecStages ELSE SpecStages \ {"Discover"}

C6_FailureContained ==
    /\ [][(InRecord /\ ~InRecord') => (pc' = "returned" \/ exit' = "interrupt")]_vars
    /\ [][((InRecord \/ pc = "returned") /\ templates' /= templates) =>
             (cur'.video_url \notin {None, <<>>} /\ cur'.thumbnail_url \notin {None, <<>>}
              /\ Len(templates') = Len(templates) + 1
              /\ SubSeq(templates', 1, Len(templates)) = templates)]_vars
    /\ [][(pc = "returned" /\ ~cur.result /\ exit' = "") =>
             (templates' = templates /\ pc' \in {"links", "input", "idle", "search_end"})]_vars
    /\ []((pc \in {"search_end", "export_check"} /\ exit = "") => rec = expected)

(* C6 witness: the batch is over, the first record was dropped and a later record
   was processed and collected. *)
C6_Witness ==
    /\ pc = "export_check"
    /\ rec >= 2
    /\ templates /= <<>>
    /\ ~InTemplates(1)

C8_BrowserCreatedOnceQuitOnce ==
    (variant = "auto" /\ harness = "main") =>
        /\ driver.created <= 1
        /\ pc \notin {"start", "crashed"} => driver.created = 1
        /\ pc /= "done" => driver.quit = 0
        /\ pc = "done" => driver.quit = 1

(* C8 witness: an interrupted automated run is over and the browser was quit. *)
C8_Witness ==
    /\ variant = "auto" /\ harness = "main"
    /\ pc = "done"
    /\ exit = "interrupt"
    /\ driver = [created |-> 1, quit |-> 1]

(* C9: an export method called on an empty collection writes no file and reports
   the warning. *)
C9_EmptyExportIsNoOp ==
    [][(pc \in {"export_csv", "export_json"} /\ templates = <<>>) =>
          (csv' = csv /\ json' = json /\ log' = "No templates to export")]_vars

Matches(f, T) ==
    /\ f /= NoFile
    /\ Len(f) = Len(T) + 1
    /\ \A k \in 1..Len(T) : f[k + 1][1] = T[k].title

(* C10: a tabular export leaves the collection unchanged and, when it writes the
   file, the file holds the header and one row per record in the order of the
   collection; exporting again a collection the file already holds leaves the
   file as it is. *)
C10_ExportIdempotent ==
    [][pc = "export_csv" =>
          /\ templates' = templates
          /\ log' = "Exported to csv" =>
               /\ Matches(csv', templates)
               /\ Matches(csv, templates) => csv' = csv]_vars

(* C10 witness: the same two-record collection was exported twice in a row. *)
C10_Witness ==
    /\ pc = "idle"
    /\ calls \in {<<"export_to_csv", "export_to_csv">>, <<"export_csv", "export_csv">>}
    /\ log = "Exported to csv"
    /\ Len(templates) = 2
    /\ Matches(csv, templates)


(***************************************************************************)
(* The methods called on their own: harness names the method, arg is the   *)
(* input of the call, out its result once pc is "done".                    *)
(***************************************************************************)
SeqsUpTo(S, n) == UNION {[1..k -> S] : k \in 0..n}

RECURSIVE Flatten(_)
Flatten(ss) == IF ss = <<>> THEN <<>> ELSE Head(ss) \o Flatten(Tail(ss))

InitCall(method, inputs) ==
    /\ harness = method
    /\ variant \in {"auto", "manual"}
    /\ pc = "call"
    /\ InitState
    /\ arg \in inputs
    /\ out = None

Return(result) ==
    /\ pc = "call"
    /\ pc' = "done"
    /\ out' = result
    /\ UNCHANGED <<arg, variant, harness, q, nlinks, i, processed, rec, expected, cur, trace,
                   disk, templates, driver, csv, json, log, exit, calls>>

(***************************************************************************)
(* upload_to_catbox.                                                       *)
(***************************************************************************)
MaxBodyParts == 3

BodyParts == {<<" ">>, <<"\n">>, HTTPS, <<"a">>}

UploadBodies == {Flatten(ps) : ps \in SeqsUpTo(BodyParts, MaxBodyParts)}

UploadResponses ==
    {[err |-> TRUE, status |-> 0, body |-> <<>>]}
    \cup [err : {FALSE}, status : {200, 500}, body : UploadBodies]

(* readable: open(file_path, 'rb') succeeds; resp: what the one requests.post gets. *)
UploadInputs == [readable : BOOLEAN, resp : UploadResponses]

(* The body of the method around the test of the response, whose result is
   tested: open() raising is caught by the except clause before any request is
   made. *)
UploadCall(a, tested) ==
    IF a.readable
    THEN [value |-> tested, requests |-> 1, raised |-> FALSE]
    ELSE [value |-> None, requests |-> 0, raised |-> FALSE]

InitUpload == InitCall("upload_to_catbox", UploadInputs)

CallUpload ==
    /\ harness = "upload_to_catbox" /\ variant = "auto"
    /\ Return(UploadCall(arg, upload_to_catbox(arg.resp)))

ManualCallUpload ==
    /\ harness = "upload_to_catbox" /\ variant = "manual"
    /\ Return(UploadCall(arg, manual_upload_to_catbox(arg.resp)))

NextUpload == CallUpload \/ ManualCallUpload

SpecUpload == InitUpload /\ [][NextUpload]_vars

(* u is body without its leading and trailing whitespace. *)
IsTrimOf(u, body) ==
    \E a \in 0..Len(body) : \E b \in a..Len(body) :
        /\ u = SubSeq(body, a + 1, b)
        /\ \A k \in (1..a) \cup ((b + 1)..Len(body)) : IsSpace(body[k])
        /\ u /= <<>> => (~IsSpace(u[1]) /\ ~IsSpace(u[Len(u)]))

(* A well-formed https:// URL, surrounding whitespace aside: the scheme, then at
   least one character, and no whitespace inside. *)
WellFormedUrl(body) ==
    \E u \in {SubSeq(body, a, b) : a \in 1..(Len(body) + 1), b \in 0..Len(body)} :
        /\ IsTrimOf(u, body)
        /\ Len(u) > Len(HTTPS)
        /\ SubSeq(u, 1, Len(HTTPS)) = HTTPS
        /\ \A k \in 1..Len(u) : ~IsSpace(u[k])

Uploaded == harness = "upload_to_catbox" /\ pc = "done"

(* C11 as stated: every call makes exactly one request and never raises; it
   returns the hosted URL exactly when the status is 200 and the body is a
   well-formed https:// URL, and none otherwise. *)
C11_OneRequestUrlIffWellFormed ==
    Uploaded =>
        /\ out.requests = 1
        /\ ~out.raised
        /\ IF ~arg.resp.err /\ arg.resp.status = 200 /\ WellFormedUrl(arg.resp.body)
           THEN out.value /= None /\ IsTrimOf(out.value, arg.resp.body)
           ELSE out.value = None

(* C11 amended: a call makes at most one request, none when the file cannot be
   opened, and never raises; it returns the body without its surrounding
   whitespace exactly when the request was made, was answered with status 200 and
   the body starts with https://, where the automated variant tests the body with
   its surrounding whitespace removed and the manual variant the body as received;
   otherwise it returns none. *)
C11_AtMostOneRequestUrlIffHttpsPrefix ==
    Uploaded =>
        LET body == arg.resp.body
            prefixed == IF variant = "auto"
                        THEN \E a \in 0..Len(body) :
                                /\ \A k \in 1..a : IsSpace(body[k])
                                /\ HasAt(body, a + 1, HTTPS)
                        ELSE HasAt(body, 1, HTTPS)
        IN /\ out.requests = (IF arg.readable THEN 1 ELSE 0)
           /\ ~out.raised
           /\ out.value /= None <=>
                (arg.readable /\ ~arg.resp.err /\ arg.resp.status = 200 /\ prefixed)
           /\ out.value /= None => IsTrimOf(out.value, body)

(* C11 witness: the automated variant returned a URL from a body that began with
   whitespace, after its one request. *)
C11_Witness ==
    /\ Uploaded /\ variant = "auto"
    /\ out.requests = 1
    /\ out.value /= None
    /\ arg.resp.body /= <<>> /\ IsSpace(arg.resp.body[1])

(***************************************************************************)
(* Thumbnail extraction inside the pipeline.                               *)
(***************************************************************************)
(* The frame the extraction asks for. *)
TargetFrame(v) == IF variant = "auto" THEN frame_number(v) ELSE ManualFrame

(* The extraction of the current record returned in this step. *)
ExtractReturns == pc = "extract" /\ trace' /= trace

ExtractFailed == \E k \in 1..Len(trace) : trace[k] = Stage("Extract", FALSE)

ReportsFailure == trace' = Append(trace, Stage("Extract", FALSE)) /\ <<"cur", "thumb">> \notin disk'

(* C12 as stated: extraction reports failure and writes no image whenever the
   file cannot be opened, the frame rate is 0 or the target frame cannot be
   decoded; and a record whose extraction failed is dropped. *)
C12_FailsOnUnopenedNoFpsUndecodable ==
    /\ [][(ExtractReturns /\ (\/ ~cur.video.opened
                              \/ cur.video.fps = 0
                              \/ cur.video.damaged
                              \/ TargetFrame(cur.video) >= cur.video.frames))
             => ReportsFailure]_vars
    /\ [][ExtractFailed => templates' = templates]_vars
    /\ []((ExtractFailed /\ pc = "returned") => ~cur.result)

(* C12 amended: extraction reports failure and writes no image whenever the file
   cannot be opened, its frames cannot be decoded or the target frame lies beyond
   the last frame, and a record whose extraction failed is dropped; a frame rate
   of 0 is no failure by itself: the automated variant then targets frame 0 and
   the manual variant targets frame 30 whatever the frame rate. *)
C12_FailsOnUnopenedUndecodable ==
    /\ [][(ExtractReturns /\ (\/ ~cur.video.opened
                              \/ cur.video.damaged
                              \/ TargetFrame(cur.video) >= cur.video.frames))
             => ReportsFailure]_vars
    /\ [][(ExtractReturns /\ cur.video.fps = 0 /\ cur.video.opened /\ ~cur.video.damaged
            /\ cur.video.frames > (IF variant = "auto" THEN 0 ELSE 30))
             => trace' = Append(trace, Stage("Extract", TRUE))]_vars
    /\ [][ExtractFailed => templates' = templates]_vars
    /\ []((ExtractFailed /\ pc = "returned") => ~cur.result)

(* C12 witness: a record whose video was downloaded and whose extraction failed
   has returned without data and without a thumbnail file. *)
C12_Witness ==
    /\ pc = "returned"
    /\ ExtractFailed
    /\ \E k \in 1..Len(trace) : trace[k] = Stage("Fetch", TRUE)
    /\ ~cur.result
    /\ <<"cur", "thumb">> \notin disk

(***************************************************************************)
(* generate_capcut_link.                                                   *)
(***************************************************************************)
MaxIdLen == 5

IdDigits == {"2", "3", "5", "6", "9"}

(* template_id: None, the empty string, or a string of digits. *)
LinkInputs == {None} \cup SeqsUpTo(IdDigits, MaxIdLen)

InitLink == InitCall("generate_capcut_link", LinkInputs)

CallLink ==
    /\ harness = "generate_capcut_link" /\ variant = "auto"
    /\ Return(generate_capcut_link(arg))

ManualCallLink ==
    /\ harness = "generate_capcut_link" /\ variant = "manual"
    /\ Return(generate_capcut_link(arg))

NextLinkCall == CallLink \/ ManualCallLink

SpecLink == InitLink /\ [][NextLinkCall]_vars

(* The number of places at which w occurs in s. *)
Count(w, s) == Cardinality({p \in 1..Len(s) : HasAt(s, p, w)})

(* The maximal digit runs of the fixed text of the link. *)
FixedDigitRuns ==
    {<<"3">>, <<"7">>, <<"2">>, <<"1">>, <<"2", "6">>, <<"2", "2">>,
     <<"2", "5", "3">>, <<"2", "5", "2">>, <<"2", "5", "2", "6">>}

LongestFixedRun == 4

OccursInFixedText(w) == \E r \in FixedDigitRuns : Count(w, r) > 0

Linked == harness = "generate_capcut_link" /\ pc = "done"

(* C13 as stated: for every non-empty string of digits D the link contains D
   exactly twice; for an absent identifier the result is none. *)
C13_IdOccursExactlyTwice ==
    Linked =>
        IF arg = None THEN out = None
        ELSE arg /= <<>> => (out /= None /\ Count(arg, out) = 2)

(* C13 amended: for a non-empty string of digits D the link contains D at the two
   places where it is substituted, and nowhere else exactly when D does not occur
   in the digits of the fixed text, which is the case for every D of more than 4
   digits; for an absent or empty identifier the result is none. *)
C13_IdOccursTwiceUnlessInFixedText ==
    Linked =>
        IF arg \in {None, <<>>} THEN out = None
        ELSE /\ out /= None
             /\ \E p \in 2..Len(out) :
                    /\ out[p - 1] = "D" /\ HasAt(out, p, arg) /\ out[p + Len(arg)] = "%"
                    /\ \E r \in (p + Len(arg) + 1)..Len(out) :
                          out[r - 1] = "D" /\ HasAt(out, r, arg) /\ out[r + Len(arg)] = "%"
             /\ Count(arg, out) = 2 <=> ~OccursInFixedText(arg)
             /\ Len(arg) > LongestFixedRun => Count(arg, out) = 2

(* C13 witness: a five-digit identifier occurs exactly twice in its link. *)
C13_Witness ==
    /\ Linked
    /\ arg /= None /\ Len(arg) = 5
    /\ out /= None /\ Count(arg, out) = 2

(***************************************************************************)
(* extract_template_id: the regular expressions, searched as re.search     *)
(* does (leftmost match of one pattern, greedy repetition).                *)
(***************************************************************************)
IsDigit(c) == c \in {"0", "1", "2", "3", "4", "5", "6", "7", "8", "9"}

(* Length of the longest run of digits that starts at position p. *)
RECURSIVE DigitRun(_, _)
DigitRun(s, p) == IF p <= Len(s) /\ IsDigit(s[p]) THEN 1 + DigitRun(s, p + 1) ELSE 0

TEMPLATE_ID == <<"t", "e", "m", "p", "l", "a", "t", "e", "_", "i", "d", "=">>
TEMPLATE_DETAIL == <<"t", "e", "m", "p", "l", "a", "t", "e", "-", "d", "e", "t", "a", "i", "l", "/">>
TEMPLATE == <<"t", "e", "m", "p", "l", "a", "t", "e", "/">>

(* Position of the first "/" at or after p, or 0. *)
RECURSIVE NextSlash(_, _)
NextSlash(s, p) ==
    IF p > Len(s) THEN 0 ELSE IF s[p] = "/" THEN p ELSE NextSlash(s, p + 1)

(* $: the end of the string, or just before a newline that ends it. *)
AtEnd(s, p) == p = Len(s) + 1 \/ (p = Len(s) /\ s[p] = "\n")

(* group(1) of a match of the pattern that starts at p, or None:
   1  template_id=(\d+)            2  template-detail/[^/]+/(\d+)
   3  /(\d{19})/?$                 4  template/(\d+)
   5  /(\d{16,20})/?                                                       *)
MatchAt(pattern, s, p) ==
    CASE pattern = 1 ->
           LET g == p + Len(TEMPLATE_ID)
           IN IF HasAt(s, p, TEMPLATE_ID) /\ DigitRun(s, g) >= 1
              THEN SubSeq(s, g, g + DigitRun(s, g) - 1) ELSE None
      [] pattern = 2 ->
           LET a == p + Len(TEMPLATE_DETAIL)
               k == NextSlash(s, a)
           IN IF HasAt(s, p, TEMPLATE_DETAIL) /\ k > a /\ DigitRun(s, k + 1) >= 1
              THEN SubSeq(s, k + 1, k + DigitRun(s, k + 1)) ELSE None
      [] pattern = 3 ->
           IF /\ s[p] = "/" /\ DigitRun(s, p + 1) >= 19
              /\ \/ AtEnd(s, p + 20)
                 \/ (p + 20 <= Len(s) /\ s[p + 20] = "/" /\ AtEnd(s, p + 21))
           THEN SubSeq(s, p + 1, p + 19) ELSE None
      [] pattern = 4 ->
           LET g == p + Len(TEMPLATE)
           IN IF HasAt(s, p, TEMPLATE) /\ DigitRun(s, g) >= 1
              THEN SubSeq(s, g, g + DigitRun(s, g) - 1) ELSE None
      [] pattern = 5 ->
           LET n == DigitRun(s, p + 1)
           IN IF s[p] = "/" /\ n >= 16
              THEN SubSeq(s, p + 1, p + (IF n > 20 THEN 20 ELSE n)) ELSE None

(* re.search(pattern, url): group(1) of the leftmost match, or None. *)
re_search(pattern, s) ==
    LET ps == {p \in 1..Len(s) : MatchAt(pattern, s, p) /= None}
    IN IF ps = {} THEN None
       ELSE MatchAt(pattern, s, CHOOSE p \in ps : \A r \in ps : p <= r)

(* Fault variant: the template-detail pattern is missing from the list. *)
patterns_without_detail == <<1, 3, 4, 5>>

patterns == <<1, 2, 3, 4, 5>>

manual_patterns == <<1, 2, 5>>

(* for pattern in patterns: the first pattern that matches decides. *)
RECURSIVE FirstMatch(_, _)
FirstMatch(ps, url) ==
    IF ps = <<>> THEN None
    ELSE IF re_search(Head(ps), url) /= None THEN re_search(Head(ps), url)
    ELSE FirstMatch(Tail(ps), url)

extract_template_id(url) == FirstMatch(patterns, url)

manual_extract_template_id(url) == FirstMatch(manual_patterns, url)

MaxUrlParts == 4

Digits3 == <<"1", "2", "3">>
Digits15 == <<"1", "2", "3", "4", "5", "6", "7", "8", "9", "0", "1", "2", "3", "4", "5">>

UrlParts == {TEMPLATE_ID, TEMPLATE_DETAIL, TEMPLATE, <<"/">>, <<"a", "/">>, <<"7">>,
             Digits3, Digits15}

(* The URL of the claim, and URLs in which two patterns compete. *)
UrlExamples ==
    {<<"h", "t", "t", "p", "s", ":", "/", "/", "x", "/">> \o TEMPLATE_DETAIL \o <<"f", "o", "o", "/">> \o Digits15,
     TEMPLATE_ID \o <<"7", "/">> \o TEMPLATE_DETAIL \o <<"a", "/">> \o Digits3,
     TEMPLATE_DETAIL \o <<"a", "/", "7", "/">> \o TEMPLATE_DETAIL \o <<"a", "/">> \o Digits3,
     TEMPLATE_DETAIL \o <<"a", "/">> \o Digits3 \o <<"?">> \o TEMPLATE_ID \o <<"7">>,
     <<"/">> \o Digits15 \o Digits3 \o <<"7", "/", "\n">>}

UrlInputs == {Flatten(ps) : ps \in SeqsUpTo(UrlParts, MaxUrlParts)} \cup UrlExamples

InitTemplateId == InitCall("extract_template_id", UrlInputs)

CallTemplateId ==
    /\ harness = "extract_template_id" /\ variant = "auto"
    /\ Return(extract_template_id(arg))

ManualCallTemplateId ==
    /\ harness = "extract_template_id" /\ variant = "manual"
    /\ Return(manual_extract_template_id(arg))

NextTemplateId == CallTemplateId \/ ManualCallTemplateId

SpecTemplateId == InitTemplateId /\ [][NextTemplateId]_vars

Identified == harness = "extract_template_id" /\ pc = "done"

AllDigits(s) == s /= <<>> /\ \A k \in 1..Len(s) : IsDigit(s[k])

(* The url ends in template-detail/<segment>/<digits>, the last "template-detail/"
   of the url beginning at p and the digits at d. *)
DetailFormAt(url, p, d) ==
    /\ HasAt(url, p, TEMPLATE_DETAIL)
    /\ p + Len(TEMPLATE_DETAIL) < d - 1 /\ d <= Len(url)
    /\ url[d - 1] = "/"
    /\ \A k \in (p + Len(TEMPLATE_DETAIL))..(d - 2) : url[k] /= "/"
    /\ AllDigits(SubSeq(url, d, Len(url)))

HasParam(url) ==
    \E p \in 1..Len(url) :
        HasAt(url, p, TEMPLATE_ID) /\ p + Len(TEMPLATE_ID) <= Len(url)
        /\ IsDigit(url[p + Len(TEMPLATE_ID)])

HasDetail(url) ==
    \E p \in 1..Len(url) : HasAt(url, p, TEMPLATE_DETAIL) /\
      \E k \in (p + Len(TEMPLATE_DETAIL) + 1)..(Len(url) - 1) :
        /\ url[k] = "/" /\ IsDigit(url[k + 1])
        /\ \A j \in (p + Len(TEMPLATE_DETAIL))..(k - 1) : url[j] /= "/"

HasTemplate(url) ==
    \E p \in 1..Len(url) :
        HasAt(url, p, TEMPLATE) /\ p + Len(TEMPLATE) <= Len(url)
        /\ IsDigit(url[p + Len(TEMPLATE)])

(* At least n digits in a row start at position p. *)
RunAt(url, p, n) == p + n - 1 <= Len(url) /\ \A j \in p..(p + n - 1) : IsDigit(url[j])

HasSlashRun16(url) == \E p \in 1..Len(url) : url[p] = "/" /\ RunAt(url, p + 1, 16)

(* C14 as stated: a url ending in template-detail/<segment>/<digits> yields its
   trailing digits; a url with neither "template_id=" nor 16 digits in a row
   yields none; whatever is returned is a non-empty string of digits. *)
C14_DetailFormElseNoneWithoutParamOrRun ==
    Identified =>
        /\ \A p \in 1..Len(arg) : HasAt(arg, p, TEMPLATE_DETAIL) =>
              \A d \in 1..Len(arg) :
                  DetailFormAt(arg, p, d) => out = SubSeq(arg, d, Len(arg))
        /\ (/\ ~\E p \in 1..Len(arg) : HasAt(arg, p, TEMPLATE_ID)
            /\ ~\E p \in 1..Len(arg) : RunAt(arg, p, 16)) => out = None
        /\ out /= None => AllDigits(out)

(* C14 amended: a url ending in template-detail/<segment>/<digits>, with no
   "template_id=<digit>" and no earlier template-detail/<segment>/<digit> in it,
   yields its trailing digits; the result is none exactly when the url has none
   of template_id=<digit>, template-detail/<segment>/<digit>, a "/" followed by 16
   digits and, in the automated variant, template/<digit>; whatever is returned is
   a non-empty string of digits that occurs in the url. *)
C14_DetailFormElseNoneWithoutAnyPattern ==
    Identified =>
        /\ \A p \in 1..Len(arg) : HasAt(arg, p, TEMPLATE_DETAIL) =>
              \A d \in 1..Len(arg) :
                  (/\ DetailFormAt(arg, p, d)
                   /\ ~HasParam(arg)
                   /\ ~HasDetail(SubSeq(arg, 1, d - 2)))
                  => out = SubSeq(arg, d, Len(arg))
        /\ out = None <=>
              ~(\/ HasParam(arg) \/ HasDetail(arg) \/ HasSlashRun16(arg)
                \/ (variant = "auto" /\ HasTemplate(arg)))
        /\ out /= None => (AllDigits(out) /\ Count(out, arg) > 0)

(* C14 witness: the url of the claim yielded its fifteen trailing digits. *)
C14_Witness ==
    /\ Identified
    /\ HasAt(arg, 1, HTTPS)
    /\ \E p \in 1..Len(arg) : HasAt(arg, p, TEMPLATE_DETAIL) /\
          \E d \in 1..Len(arg) : DetailFormAt(arg, p, d)
    /\ out = Digits15

(***************************************************************************)
(* extract_tags (automated variant only).                                  *)
(***************************************************************************)
(* \w *)
IsWord(c) ==
    \/ IsDigit(c)
    \/ c \in {"_", "a", "b", "c", "d", "e", "f", "g", "h", "i", "j", "k", "l", "m", "n",
              "o", "p", "q", "r", "s", "t", "u", "v", "w", "x", "y", "z"}

RECURSIVE WordRun(_, _)
WordRun(s, p) == IF p <= Len(s) /\ IsWord(s[p]) THEN 1 + WordRun(s, p + 1) ELSE 0

(* content.split(','): the pieces between the commas, in order. *)
RECURSIVE Split(_, _)
Split(s, piece) ==
    IF s = <<>> THEN <<piece>>
    ELSE IF Head(s) = "," THEN <<piece>> \o Split(Tail(s), <<>>)
    ELSE Split(Tail(s), Append(piece, Head(s)))

(* [tag.strip() for tag in pieces if tag.strip()] *)
RECURSIVE StrippedNonEmpty(_)
StrippedNonEmpty(pieces) ==
    IF pieces = <<>> THEN <<>>
    ELSE (IF Strip(Head(pieces)) /= <<>> THEN <<Strip(Head(pieces))>> ELSE <<>>)
         \o StrippedNonEmpty(Tail(pieces))

(* re.findall(r'#(\w+)', text) from position p on. *)
RECURSIVE Hashtags(_, _)
Hashtags(s, p) ==
    IF p > Len(s) THEN <<>>
    ELSE IF s[p] = "#" /\ WordRun(s, p + 1) >= 1
         THEN <<SubSeq(s, p + 1, p + WordRun(s, p + 1))>>
              \o Hashtags(s, p + 1 + WordRun(s, p + 1))
         ELSE Hashtags(s, p + 1)

HashtagLimit == 5

TagLimit == 5

(* lst[:n] *)
Take(lst, n) == SubSeq(lst, 1, IF Len(lst) < n THEN Len(lst) ELSE n)

(* The list tags just before the return statement. *)
tags(page) ==
    (IF page.keywords = None THEN <<>> ELSE StrippedNonEmpty(Split(page.keywords, <<>>)))
    \o Take(Hashtags(page.text, 1), HashtagLimit)

(* The elements of lst, each kept where it occurs first. *)
RECURSIVE FirstOccurrences(_, _)
FirstOccurrences(lst, seen) ==
    IF lst = <<>> THEN <<>>
    ELSE IF Head(lst) \in seen THEN FirstOccurrences(Tail(lst), seen)
    ELSE <<Head(lst)>> \o FirstOccurrences(Tail(lst), seen \cup {Head(lst)})

(* Fault variant: the list is not turned into a set. *)
list_keeping_duplicates(lst) == {lst}

(* list(set(lst)): the elements once each, in an order the set decides. *)
list_set(lst) ==
    UNION {{[k \in 1..Len(d) |-> d[order[k]]] : order \in Permutations(1..Len(d))} :
           d \in {FirstOccurrences(lst, {})}}

MaxKeywords == 2

MaxTextParts == 3

KeywordItems == {<<"a">>, <<" ", "b", " ">>, <<" ">>}

RECURSIVE Join(_)
Join(items) ==
    IF items = <<>> THEN <<>>
    ELSE IF Len(items) = 1 THEN Head(items)
    ELSE Head(items) \o <<",">> \o Join(Tail(items))

(* The content attribute of the keywords meta element, None when there is no
   such element. *)
KeywordContents == {None} \cup {Join(items) : items \in SeqsUpTo(KeywordItems, MaxKeywords)}

TextParts == {<<"#", "a", "#", "c">>, <<" ", "#", "d", " ", "#", "e", " ", "#", "f">>,
              <<"#", "g", " ", "x", " ", "#", " ">>}

PageTexts == {Flatten(ps) : ps \in SeqsUpTo(TextParts, MaxTextParts)}

TagInputs == [keywords : KeywordContents, text : PageTexts]

InitTags == InitCall("extract_tags", TagInputs) /\ variant = "auto"

CallTags ==
    /\ harness = "extract_tags" /\ variant = "auto" /\ pc = "call"
    /\ \E lst \in list_set(tags(arg)) : Return(Take(lst, TagLimit))

NextTags == CallTags

SpecTags == InitTags /\ [][NextTags]_vars

Tagged == harness = "extract_tags" /\ pc = "done"

(* C15: whatever the keywords and the text of the page, extract_tags returns at
   most 5 tags and no tag occurs twice in what it returns. *)
C15_AtMostFiveDistinctTags ==
    Tagged =>
        /\ Len(out) <= 5
        /\ \A j, k \in 1..Len(out) : j /= k => out[j] /= out[k]

(* C15 witness: a page with a tag given twice and more than five different tags
   yielded five tags. *)
C15_Witness ==
    /\ Tagged
    /\ Len(out) = 5
    /\ \E t \in {tags(arg)} :
          /\ Cardinality({t[k] : k \in 1..Len(t)}) > 5
          /\ \E j, k \in 1..Len(t) : j /= k /\ t[j] = t[k]

(***************************************************************************)
(* extract_duration (automated variant only).                              *)
(***************************************************************************)
RECURSIVE SpaceRun(_, _)
SpaceRun(s, p) == IF p <= Len(s) /\ IsSpace(s[p]) THEN 1 + SpaceRun(s, p + 1) ELSE 0

SEC == <<"s", "e", "c">>

(* group(0) of a match of the pattern that starts at p, or None:
   1  (\d+):(\d+)        2  (\d+)s        3  (\d+)\s*sec                   *)
DurationMatchAt(pattern, s, p) ==
    LET n == DigitRun(s, p)
    IN CASE pattern = 1 ->
              IF n >= 1 /\ HasAt(s, p + n, <<":">>) /\ DigitRun(s, p + n + 1) >= 1
              THEN SubSeq(s, p, p + n + DigitRun(s, p + n + 1)) ELSE None
         [] pattern = 2 ->
              IF n >= 1 /\ HasAt(s, p + n, <<"s">>)
              THEN SubSeq(s, p, p + n) ELSE None
         [] pattern = 3 ->
              IF n >= 1 /\ HasAt(s, p + n + SpaceRun(s, p + n), SEC)
              THEN SubSeq(s, p, p + n + SpaceRun(s, p + n) + Len(SEC) - 1) ELSE None

(* re.search(pattern, text_content): group(0) of the leftmost match, or None. *)
duration_search(pattern, s) ==
    LET ps == {p \in 1..Len(s) : DurationMatchAt(pattern, s, p) /= None}
    IN IF ps = {} THEN None
       ELSE DurationMatchAt(pattern, s, CHOOSE p \in ps : \A r \in ps : p <= r)

(* Fault variant: the seconds pattern is tried before the MM:SS pattern. *)
duration_patterns_seconds_first == <<2, 1, 3>>

duration_patterns == <<1, 2, 3>>

DefaultDuration == <<"0", ":", "1", "5">>

RECURSIVE FirstDuration(_, _)
FirstDuration(ps, text) ==
    IF ps = <<>> THEN DefaultDuration
    ELSE IF duration_search(Head(ps), text) /= None THEN duration_search(Head(ps), text)
    ELSE FirstDuration(Tail(ps), text)

extract_duration(text) == FirstDuration(duration_patterns, text)

MaxDurationParts == 5

DurationParts == {<<"1">>, <<"2">>, <<"3">>, <<":">>, <<"s">>, <<" ">>, <<"e", "c">>}

DurationTexts == {Flatten(ps) : ps \in SeqsUpTo(DurationParts, MaxDurationParts)}

InitDuration == InitCall("extract_duration", DurationTexts) /\ variant = "auto"

CallDuration ==
    /\ harness = "extract_duration" /\ variant = "auto"
    /\ Return(extract_duration(arg))

NextDuration == CallDuration

SpecDuration == InitDuration /\ [][NextDuration]_vars

Timed == harness = "extract_duration" /\ pc = "done"

OneTwentyThree == <<"1", ":", "2", "3">>

(* A digit, the character c, a digit: around position k. *)
DigitsAround(s, k, c) ==
    1 < k /\ k < Len(s) /\ s[k] = c /\ IsDigit(s[k - 1]) /\ IsDigit(s[k + 1])

(* A digit and then the character c at position k. *)
DigitBefore(s, k, c) == 1 < k /\ k <= Len(s) /\ s[k] = c /\ IsDigit(s[k - 1])

(* Length of the run of digits that ends at position p. *)
RECURSIVE DigitRunBack(_, _)
DigitRunBack(s, p) == IF p >= 1 /\ IsDigit(s[p]) THEN 1 + DigitRunBack(s, p - 1) ELSE 0

(* Some digits, whitespace and "sec" in a row somewhere in s. *)
HasSec(s) ==
    \E k \in 2..Len(s) : HasAt(s, k, SEC) /\
        \E j \in 1..(k - 1) : IsDigit(s[j]) /\ \A m \in (j + 1)..(k - 1) : IsSpace(s[m])

(* C16 as stated: the result is a match found in the text, so that any text
   containing "1:23" yields "1:23"; a text in which no pattern matches yields
   "0:15". *)
C16_TextWithOneTwentyThreeYieldsIt ==
    Timed =>
        /\ Count(OneTwentyThree, arg) > 0 => out = OneTwentyThree
        /\ (\/ \E k \in 1..Len(arg) : DigitsAround(arg, k, ":") \/ DigitBefore(arg, k, "s")
            \/ HasSec(arg))
           => Count(out, arg) > 0
        /\ ~(\/ \E k \in 1..Len(arg) : DigitsAround(arg, k, ":") \/ DigitBefore(arg, k, "s")
             \/ HasSec(arg))
           => out = DefaultDuration

(* C16 amended: the patterns are tried in the order MM:SS, Ns, N sec, each over
   the whole text, and the result is the leftmost match of the first pattern that
   matches anywhere, its digit runs taken whole: the digits around the first
   digit-colon-digit if there is one; otherwise the digits before the first "s"
   that follows a digit, with that "s"; otherwise digits, whitespace and "sec";
   otherwise "0:15". A text whose first digit-colon-digit is "1:23" with no
   digit next to it yields "1:23". *)
C16_FirstPatternInOrderLeftmostMatch ==
    Timed =>
        LET colons == {k \in 1..Len(arg) : DigitsAround(arg, k, ":")}
            esses == {k \in 1..Len(arg) : DigitBefore(arg, k, "s")}
            first(S) == CHOOSE k \in S : \A j \in S : k <= j
        IN /\ colons /= {} =>
                LET c == first(colons)
                IN out = SubSeq(arg, c - DigitRunBack(arg, c - 1), c + DigitRun(arg, c + 1))
           /\ (colons = {} /\ esses /= {}) =>
                LET e == first(esses)
                IN out = SubSeq(arg, e - DigitRunBack(arg, e - 1), e)
           /\ (colons = {} /\ esses = {} /\ HasSec(arg)) =>
                /\ Count(out, arg) > 0
                /\ IsDigit(out[1]) /\ HasAt(out, Len(out) - 2, SEC)
                /\ \E j \in 1..(Len(out) - 4) :
                      /\ \A m \in 1..j : IsDigit(out[m])
                      /\ \A m \in (j + 1)..(Len(out) - 3) : IsSpace(out[m])
           /\ (colons = {} /\ esses = {} /\ ~HasSec(arg)) => out = DefaultDuration
           /\ (/\ colons /= {}
               /\ HasAt(arg, first(colons) - 1, OneTwentyThree)
               /\ DigitRunBack(arg, first(colons) - 1) = 1
               /\ DigitRun(arg, first(colons) + 1) = 2) => out = OneTwentyThree

(* C16 witness: a text that holds "1:23" and more yielded "1:23". *)
C16_Witness ==
    /\ Timed
    /\ Count(OneTwentyThree, arg) > 0
    /\ Len(arg) > Len(OneTwentyThree)
    /\ out = OneTwentyThree
====
